---- MODULE Spec2Model ----
(***************************************************************************)
(* PrepGenius: the websocket relay of src/main.py (websocket_endpoint and  *)
(* the tasks it forks), the InterviewTools of src/src/tools.py and the     *)
(* resume prompt of src/src/agent.py, as one state machine.                *)
(*                                                                         *)
(* One client connection is modelled.  The orchestrator is                 *)
(* websocket_endpoint; its position is pc.  The tasks it creates per cycle *)
(* (agent_to_client_messaging, client_to_agent_messaging,                  *)
(* periodic_timer_update, wait_for_termination) are identified by the      *)
(* number of the upstream session (LiveRequestQueue) they were created     *)
(* for.  A task completing and asyncio.wait returning are separate steps,  *)
(* so the done set seen by the orchestrator can hold several tasks.        *)
(***************************************************************************)
EXTENDS Integers, Sequences, FiniteSets, TLC

(***************************************************************************)
(* Program constants and model bounds                                      *)
(***************************************************************************)

\* main.py:211  max_sessions = 10
max_sessions == 10

\* main.py:265  await asyncio.sleep(5): the ticker's polling period, seconds.
\* The clock of the model advances in steps of this length.
PollSeconds == 5

\* tools.py:38-39  seconds per minute in elapsed // 60 and elapsed % 60
SecondsPerMinute == 60

\* Bounds of the model (not program constants).
MaxLog == 2
MaxFrames == 1
MaxTicks == 25
MaxFailures == 2
MaxTimedFailures == 1
MaxCalls == 4
MaxCallTicks == 13
MaxFrameTicks == 13
MaxEvents == 2

\* tools.py:14  start_time: Optional[float] = None
NoTime == -1

(***************************************************************************)
(* Error texts (str(exception)) and the substring tests of main.py         *)
(***************************************************************************)

\* Sample error texts a pump or start_agent_session can raise.
ErrorTexts ==
    { "received 1011", "received 1008", "Policy Violation", "Internal Error",
      "ConnectionClosedError", "connectionclosed", "Mime type not supported" }

\* One text of each class, for the specification with a clock
TimedErrorTexts ==
    { "received 1011", "ConnectionClosedError", "Mime type not supported" }

\* str.lower() on the sample texts
Lower(s) ==
    CASE s = "Policy Violation" -> "policy violation"
      [] s = "Internal Error" -> "internal error"
      [] s = "ConnectionClosedError" -> "connectionclosederror"
      [] s = "Mime type not supported" -> "mime type not supported"
      [] OTHER -> s

\* `sub in s` on the sample texts: the pairs <<sub, s>> for which it is True
SubstringPairs ==
    { <<"1011", "received 1011">>, <<"1008", "received 1008">>,
      <<"policy violation", "policy violation">>,
      <<"internal error", "internal error">>,
      <<"ConnectionClosed", "ConnectionClosedError">> }

Contains(sub, s) == <<sub, s>> \in SubstringPairs

\* main.py:316-321: the test inside `for task in done`
InLoopRecoverable(e) ==
    \/ Contains("1008", e)
    \/ Contains("1011", e)
    \/ Contains("policy violation", Lower(e))
    \/ Contains("internal error", Lower(e))

\* Faulty variant: every error is taken for a recoverable one
ExceptRecoverableAlways(e) == e = e

\* main.py:354-360: the test of the except clause
ExceptRecoverable(e) ==
    \/ Contains("1008", e)
    \/ Contains("1011", e)
    \/ Contains("policy violation", Lower(e))
    \/ Contains("internal error", Lower(e))
    \/ Contains("ConnectionClosed", e)

\* Faulty variant: the loop test off by one
LoopConditionInclusive(n) == n <= max_sessions

\* main.py:213  while session_count < max_sessions
LoopCondition(n) == n < max_sessions

(***************************************************************************)
(* InterviewTools: timer and elapsed-time formatting (tools.py:17-40)      *)
(***************************************************************************)

\* Faulty variant: the seconds are not reduced modulo the minute
FormatElapsedWholeSeconds(elapsed) == << elapsed \div SecondsPerMinute, elapsed >>

\* f"{minutes}m {seconds}s" as the pair <<minutes, seconds>>
FormatElapsed(elapsed) ==
    << elapsed \div SecondsPerMinute, elapsed % SecondsPerMinute >>

NotStarted == <<0, 0>>          \* "0m 0s"
TimerStopped == <<"Timer stopped">>

\* Faulty variant: a stopped timer goes on computing
ElapsedTimeIgnoresStop(start, running, t) ==
    IF start = NoTime THEN NotStarted ELSE FormatElapsed(t - start)

\* get_elapsed_time() of a timer (start, running) read at time t
ElapsedTime(start, running, t) ==
    IF start = NoTime THEN NotStarted
    ELSE IF ~running THEN TimerStopped
    ELSE FormatElapsed(t - start)

\* tools.py:17-20  start_timer() at time t: <<start_time, is_timer_running>>
StartTimer(t) == << t, TRUE >>

\* tools.py:22-24  stop_timer(): is_timer_running afterwards
StopTimer == FALSE

\* tools.py:26-40 assigns nothing: the timer after get_elapsed_time()
TimerAfterElapsed(start, running) == << start, running >>

(***************************************************************************)
(* agent.py: the resume context                                            *)
(***************************************************************************)

\* str.upper() on the role names
Upper(r) ==
    CASE r = "agent" -> "AGENT"
      [] r = "user" -> "USER"
      [] OTHER -> r

\* agent.py:64  f"**{role}:** {content}"
HistoryLine(entry) == << "**", Upper(entry.role), ":** ", entry.content >>

HistoryHeader ==
    << <<"### Previous Conversation (Session Resumed)">>,
       <<"The following is the conversation history from the previous session.">> >>

HistoryFooter ==
    << <<"### Resume Interview">>,
       <<"Continue the interview from where you left off.">> >>

\* Faulty variant: the newest entry is left out of the history
format_conversation_history_stale(log) ==
    IF log = << >> THEN << >>
    ELSE HistoryHeader \o [i \in 1..(Len(log) - 1) |-> HistoryLine(log[i])]
                       \o HistoryFooter

\* agent.py:51-71  format_conversation_history: the lines joined by "\n"
format_conversation_history(log) ==
    IF log = << >> THEN << >>
    ELSE HistoryHeader \o [i \in 1..Len(log) |-> HistoryLine(log[i])] \o HistoryFooter

\* agent.py:95-100  the part of the instruction after INTERVIEW_PROMPT
AgentInstruction(history) ==
    IF history # << >> THEN format_conversation_history(history) ELSE << >>

(***************************************************************************)
(* State                                                                   *)
(***************************************************************************)

VARIABLES
    pc,                \* websocket_endpoint: "open" | "wait" | "sleep" | "done"
    session_count,     \* main.py:210
    has_tools,         \* interview_tools is not None
    start_time,        \* InterviewTools.start_time (NoTime = None)
    is_timer_running,  \* InterviewTools.is_timer_running
    conversation_log,  \* InterviewTools.conversation_log
    termination_event, \* InterviewTools.termination_event.is_set()
    now,               \* time.time(), seconds
    lrq,               \* live_request_queue: [id, closes]; id 0 = unbound
    instruction,       \* history part of the current agent's instruction
    a2c,               \* agent_to_client_task of the current cycle
    c2a_live,          \* ids of the client_to_agent tasks still running
    term_live,         \* ids of the wait_for_termination tasks still waiting
    ticker,            \* periodic_timer_update task of the current cycle
    ws,                \* client websocket: "open" | "disconnected" | "closed"
    sent,              \* what was put on the LiveRequestQueues, in order
    recv,              \* history: the client frames received, in order, with
                       \* the pump that got each and the state it got it in
    log_calls,         \* history: update_interview_log calls in call order
    disc_at,           \* history: session_count when the disconnect reached the
                       \* outbound pump of a running cycle
    calls,             \* history: direct calls of the timer's methods
    submit_result,     \* the latest submit_interview_session_async call: what
                       \* it handed to the store, the store's outcome, its return
    events,            \* history: the upstream events the inbound pumps got
    to_client          \* the frames sent on the client websocket, in order

vars ==
    << pc, session_count, has_tools, start_time, is_timer_running,
       conversation_log, termination_event, now, lrq, instruction, a2c,
       c2a_live, term_live, ticker, ws, sent, recv, log_calls, disc_at,
       calls, submit_result, events, to_client >>

toolVars == << has_tools, start_time, is_timer_running, conversation_log,
               termination_event >>

\* No submit_interview_session_async call yet
NoSubmit ==
    [doc |-> [session_id |-> "", conversation |-> << >>, status |-> ""],
     stored |-> FALSE, ret |-> << "", "" >>]

NoTask == [st |-> "none", err |-> ""]
NoTicker == [st |-> "none", last_minute |-> -1, wake |-> 0, since |-> 0]

\* State after websocket.accept() and main.py:205-211
Init ==
    /\ pc = "open"
    /\ session_count = 0
    /\ has_tools = FALSE
    /\ start_time = NoTime
    /\ is_timer_running = FALSE
    /\ conversation_log = << >>
    /\ termination_event = FALSE
    /\ now = 0
    /\ lrq = [id |-> 0, closes |-> 0]
    /\ instruction = << >>
    /\ a2c = NoTask
    /\ c2a_live = {}
    /\ term_live = {}
    /\ ticker = NoTicker
    /\ ws = "open"
    /\ sent = << >>
    /\ recv = << >>
    /\ log_calls = << >>
    /\ disc_at = 0
    /\ calls = << >>
    /\ submit_result = NoSubmit
    /\ events = << >>
    /\ to_client = << >>

(***************************************************************************)
(* websocket_endpoint (main.py:198-386)                                    *)
(***************************************************************************)

\* Faulty variant: the session ends without stopping the timer
FinishLeavesTimer ==
    /\ is_timer_running' = is_timer_running
    /\ ws' = "closed"
    /\ pc' = "done"

\* main.py:375-383: stop the timer (if tools exist), close the websocket
Finish ==
    /\ is_timer_running' = StopTimer
    /\ ws' = "closed"
    /\ pc' = "done"

\* Faulty variant: close() is not called
CloseQueueSkipped(q, times) == q

\* live_request_queue.close() on the queue the variable is bound to; with
\* the variable unbound (main.py:363 before any open) the NameError is
\* swallowed by main.py:366.
CloseQueue(q, times) ==
    IF q.id = 0 THEN q ELSE [q EXCEPT !.closes = @ + times]

\* periodic_timer_update up to its first sleep (main.py:260-265)
NewTicker(running) ==
    IF running
    THEN [st |-> "sleeping", last_minute |-> -1, wake |-> now + PollSeconds,
          since |-> now]
    ELSE NoTicker

\* Faulty variant: the timer is started again on a resumption
OpenOkStartsTimer ==
    /\ pc = "open"
    /\ LoopCondition(session_count)
    /\ session_count' = session_count + 1
    /\ IF ~has_tools
       THEN /\ has_tools' = TRUE
            /\ instruction' = AgentInstruction(<< >>)
            /\ start_time' = StartTimer(now)[1]
            /\ is_timer_running' = StartTimer(now)[2]
       ELSE /\ instruction' = AgentInstruction(conversation_log)
            /\ start_time' = StartTimer(now)[1]
            /\ is_timer_running' = StartTimer(now)[2]
            /\ UNCHANGED has_tools
    /\ lrq' = [id |-> lrq.id + 1, closes |-> 0]
    /\ a2c' = [st |-> "running", err |-> ""]
    /\ c2a_live' = c2a_live \cup {lrq.id + 1}
    /\ term_live' = term_live \cup {lrq.id + 1}
    /\ ticker' = NewTicker(is_timer_running')
    /\ pc' = "wait"
    /\ UNCHANGED << conversation_log, termination_event, now, ws, sent, recv,
                    log_calls, disc_at, calls, submit_result, events, to_client >>

\* main.py:213-299, start_agent_session succeeding: first session or resume
OpenOk ==
    /\ pc = "open"
    /\ LoopCondition(session_count)
    /\ session_count' = session_count + 1
    /\ IF ~has_tools
       THEN /\ has_tools' = TRUE
            /\ instruction' = AgentInstruction(<< >>)
            /\ start_time' = StartTimer(now)[1]
            /\ is_timer_running' = StartTimer(now)[2]
       ELSE /\ instruction' = AgentInstruction(conversation_log)
            /\ UNCHANGED << has_tools, start_time, is_timer_running >>
    /\ lrq' = [id |-> lrq.id + 1, closes |-> 0]
    /\ a2c' = [st |-> "running", err |-> ""]
    /\ c2a_live' = c2a_live \cup {lrq.id + 1}
    /\ term_live' = term_live \cup {lrq.id + 1}
    /\ ticker' = NewTicker(is_timer_running')
    /\ pc' = "wait"
    /\ UNCHANGED << conversation_log, termination_event, now, ws, sent, recv,
                    log_calls, disc_at, calls, submit_result, events, to_client >>

\* main.py:213-245 with start_agent_session raising e, then main.py:349-373
OpenFails(cap, e) ==
    /\ pc = "open"
    /\ LoopCondition(session_count)
    /\ session_count < cap
    /\ session_count' = session_count + 1
    /\ IF ExceptRecoverable(e)
       THEN /\ lrq' = CloseQueue(lrq, 1)
            /\ pc' = "sleep"
            /\ UNCHANGED << is_timer_running, ws >>
       ELSE /\ Finish
            /\ UNCHANGED lrq
    /\ UNCHANGED << has_tools, start_time, conversation_log, termination_event,
                    now, instruction, a2c, c2a_live, term_live, ticker, sent,
                    recv, log_calls, disc_at,
                    calls, submit_result, events, to_client >>

\* main.py:369-370: the delay is over, back to the loop head
SleepDone ==
    /\ pc = "sleep"
    /\ pc' = "open"
    /\ UNCHANGED << session_count, has_tools, start_time, is_timer_running,
                    conversation_log, termination_event, now, lrq, instruction,
                    a2c, c2a_live, term_live, ticker, ws, sent, recv, log_calls,
                    disc_at,
                    calls, submit_result, events, to_client >>

\* main.py:213 false: the loop ends, main.py:375-386
LoopExit ==
    /\ pc = "open"
    /\ ~LoopCondition(session_count)
    /\ Finish
    /\ UNCHANGED << session_count, has_tools, start_time, conversation_log,
                    termination_event, now, lrq, instruction, a2c, c2a_live,
                    term_live, ticker, sent, recv, log_calls, disc_at,
                    calls, submit_result, events, to_client >>

\* The tasks of asyncio.wait's list that are done (main.py:302-305)
A2CDone == a2c.st = "failed"
C2ADone == lrq.id \notin c2a_live
TermDone == lrq.id \notin term_live

\* for t in pending: t.cancel()
CancelPending ==
    /\ a2c' = NoTask
    /\ c2a_live' = c2a_live \ {lrq.id}
    /\ term_live' = term_live \ {lrq.id}

\* The pending tasks are left as they are (the failed pump is done)
LeavePending ==
    /\ a2c' = NoTask
    /\ UNCHANGED << c2a_live, term_live >>

\* main.py:303-347 and 349-373: asyncio.wait returns and the result is handled
WaitReturns ==
    /\ pc = "wait"
    /\ A2CDone \/ C2ADone \/ TermDone
    /\ ticker' = NoTicker                              \* timer_task.cancel()
    /\ IF A2CDone
       THEN IF InLoopRecoverable(a2c.err)
            THEN \* main.py:326-330: `continue` resumes `for task in done`;
                 \* then main.py:336-347 closes again and breaks
                 /\ CancelPending
                 /\ lrq' = CloseQueue(lrq, 2)
                 /\ Finish
            ELSE \* main.py:333 raise, caught at main.py:349
                 IF ExceptRecoverable(a2c.err)
                 THEN /\ LeavePending
                      /\ lrq' = CloseQueue(lrq, 1)
                      /\ pc' = "sleep"
                      /\ UNCHANGED << is_timer_running, ws >>
                 ELSE /\ LeavePending
                      /\ Finish
                      /\ UNCHANGED lrq
       ELSE \* main.py:336-347: both branches cancel, close and break
            /\ CancelPending
            /\ lrq' = CloseQueue(lrq, 1)
            /\ Finish
    /\ UNCHANGED << session_count, has_tools, start_time, conversation_log,
                    termination_event, now, instruction, sent, recv, log_calls,
                    disc_at,
                    calls, submit_result, events, to_client >>

(***************************************************************************)
(* InterviewTools called by the agent (tools.py:42-90).  The agent's tool  *)
(* calls run inside the live event stream that the inbound pump iterates.  *)
(***************************************************************************)

ToolCallPossible == pc = "wait" /\ a2c.st = "running" /\ has_tools

\* The dialogue the agent logs, one update_interview_log call per line
Dialogue ==
    << <<"agent", "Q1">>, <<"user", "A1">>, <<"agent", "Q2">>, <<"user", "A2">>,
       <<"agent", "Q3">>, <<"user", "A3">> >>

\* The arguments of the next update_interview_log call
NextLogCall == { Dialogue[i] : i \in {Len(log_calls) + 1} \cap DOMAIN Dialogue }

\* tools.py:54  the timestamp of a log entry; None is <<"None">>
EntryTimestamp ==
    IF is_timer_running
    THEN ElapsedTime(start_time, is_timer_running, now)
    ELSE <<"None">>

\* Faulty variant: the entry is put in front
PrependEntry(log, entry) == << entry >> \o log

\* tools.py:56  self.conversation_log.append(entry)
AppendEntry(log, entry) == Append(log, entry)

\* tools.py:42-57
update_interview_log(role, content) ==
    /\ ToolCallPossible
    /\ Len(conversation_log) < MaxLog
    /\ conversation_log' =
           AppendEntry(conversation_log,
                       [role |-> role, content |-> content,
                        timestamp |-> EntryTimestamp])
    /\ log_calls' = Append(log_calls, <<role, content>>)
    /\ UNCHANGED << pc, session_count, has_tools, start_time, is_timer_running,
                    termination_event, now, lrq, instruction, a2c, c2a_live,
                    term_live, ticker, ws, sent, recv, disc_at,
                    calls, submit_result, events, to_client >>

\* main.py:48-63: the session id of the tools is the client's user id
SessionId == "1"

\* tools.py:67-71
SessionData(log) ==
    [session_id |-> SessionId, conversation |-> log, status |-> "completed"]

\* db.py:12-21: insert_one accepts the document and returns its id, or raises
save_session_document(stored) ==
    IF stored THEN << "inserted_id", "doc1" >> ELSE << "raise", "store down" >>

\* tools.py:72-76: the return value for the store's outcome
SubmitReturn(outcome) ==
    IF outcome[1] = "inserted_id"
    THEN << "Interview session saved with ID: ", outcome[2] >>
    ELSE << "Error saving session: ", outcome[2] >>

\* Faulty variant: a failing store empties the log
LogAfterSubmitCleared(log, stored) == IF stored THEN log ELSE << >>

\* tools.py:66-76  the conversation handed to the store is the log itself;
\* the log after the call, whether the store accepted it or raised
LogAfterSubmit(log, stored) == log

\* tools.py:59-76
submit_interview_session_async(stored) ==
    /\ ToolCallPossible
    /\ is_timer_running' = StopTimer
    /\ conversation_log' = LogAfterSubmit(conversation_log, stored)
    /\ submit_result' = [doc |-> SessionData(conversation_log),
                         stored |-> stored,
                         ret |-> SubmitReturn(save_session_document(stored))]
    /\ UNCHANGED << pc, session_count, has_tools, start_time, termination_event,
                    now, lrq, instruction, a2c, c2a_live, term_live, ticker, ws,
                    sent, recv, log_calls, disc_at,
                    calls, events, to_client >>

\* tools.py:78-90
end_interview ==
    /\ ToolCallPossible
    /\ is_timer_running' = StopTimer
    /\ termination_event' = TRUE                       \* termination_event.set()
    /\ UNCHANGED << pc, session_count, has_tools, start_time, conversation_log,
                    now, lrq, instruction, a2c, c2a_live, term_live, ticker, ws,
                    sent, recv, log_calls, disc_at,
                    calls, submit_result, events, to_client >>

(***************************************************************************)
(* The tasks of a cycle                                                    *)
(***************************************************************************)

\* main.py:93-134: the inbound pump ends with an exception (the live event
\* stream raises, or websocket.send_text does)
A2CFails(cap, e) ==
    /\ pc = "wait"
    /\ a2c.st = "running"
    /\ session_count <= cap
    /\ a2c' = [st |-> "failed", err |-> e]
    /\ UNCHANGED << pc, session_count, has_tools, start_time, is_timer_running,
                    conversation_log, termination_event, now, lrq, instruction,
                    c2a_live, term_live, ticker, ws, sent, recv, log_calls,
                    disc_at,
                    calls, submit_result, events, to_client >>

\* Upstream events (main.py:96-131): the flags, and the first part of the
\* content: "none" (no content or no parts), "audio" (inline audio/pcm data),
\* "blob" (inline data of another type) or "text"
Events ==
    { [turn_complete |-> TRUE, interrupted |-> FALSE, part |-> "text",
       data |-> "Bye", partial |-> FALSE],
      [turn_complete |-> FALSE, interrupted |-> TRUE, part |-> "none",
       data |-> "", partial |-> FALSE],
      [turn_complete |-> FALSE, interrupted |-> FALSE, part |-> "none",
       data |-> "", partial |-> FALSE],
      [turn_complete |-> FALSE, interrupted |-> FALSE, part |-> "audio",
       data |-> "ABC", partial |-> FALSE],
      [turn_complete |-> FALSE, interrupted |-> FALSE, part |-> "audio",
       data |-> "", partial |-> TRUE],
      [turn_complete |-> FALSE, interrupted |-> FALSE, part |-> "blob",
       data |-> "ABC", partial |-> TRUE],
      [turn_complete |-> FALSE, interrupted |-> FALSE, part |-> "text",
       data |-> "Hel", partial |-> TRUE],
      [turn_complete |-> FALSE, interrupted |-> FALSE, part |-> "text",
       data |-> "Hello", partial |-> FALSE] }

\* base64.b64encode(...).decode("ascii") on the sample data
b64encode(d) == IF d = "ABC" THEN "QUJD" ELSE d

\* The JSON objects of main.py:99-102, 122-125 and 132
ControlFrame(e) ==
    [form |-> "control", turn_complete |-> e.turn_complete,
     interrupted |-> e.interrupted, mime_type |-> "", data |-> ""]
MediaFrame(mime_type, data) ==
    [form |-> "media", turn_complete |-> FALSE, interrupted |-> FALSE,
     mime_type |-> mime_type, data |-> data]

\* part.text: inline-data parts carry no text
PartText(e) == IF e.part = "text" THEN e.data ELSE ""

\* Faulty variant: a complete text is relayed like a partial one
EventFramesAnyText(e) ==
    IF e.turn_complete \/ e.interrupted
    THEN << ControlFrame(e) >>
    ELSE IF e.part = "none"
    THEN << >>
    ELSE IF e.part = "audio" /\ e.data # ""
    THEN << MediaFrame("audio/pcm", b64encode(e.data)) >>
    ELSE IF PartText(e) # ""
    THEN << MediaFrame("text/plain", PartText(e)) >>
    ELSE << >>

\* main.py:98-134: the frames the inbound pump sends for one event
EventFrames(e) ==
    IF e.turn_complete \/ e.interrupted
    THEN << ControlFrame(e) >>
    ELSE IF e.part = "none"
    THEN << >>
    ELSE IF e.part = "audio" /\ e.data # ""
    THEN << MediaFrame("audio/pcm", b64encode(e.data)) >>
    ELSE IF PartText(e) # "" /\ e.partial
    THEN << MediaFrame("text/plain", PartText(e)) >>
    ELSE << >>

\* main.py:96-134: the live stream yields event e to the inbound pump, which
\* sends its frames on the websocket.  A send on a websocket that is not
\* open raises: that is A2CFails.
A2CEvent(e) ==
    /\ pc = "wait"
    /\ a2c.st = "running"
    /\ Len(events) < MaxEvents
    /\ EventFrames(e) = << >> \/ ws = "open"
    /\ events' = Append(events, e)
    /\ to_client' = to_client \o
           [i \in 1..Len(EventFrames(e)) |->
               [n |-> Len(events) + 1, frame |-> EventFrames(e)[i]]]
    /\ UNCHANGED << pc, session_count, has_tools, start_time, is_timer_running,
                    conversation_log, termination_event, now, lrq, instruction,
                    a2c, c2a_live, term_live, ticker, ws, sent, recv,
                    log_calls, disc_at, calls, submit_result >>

\* main.py:95-96: the live stream is exhausted without an error.  `async
\* for` ends and `while True` starts it again on the exhausted stream,
\* which ends at once, again and again: the pump never returns and never
\* awaits anything that suspends it.
A2CStreamEnds ==
    /\ pc = "wait"
    /\ a2c.st = "running"
    /\ a2c' = [st |-> "relooping", err |-> ""]
    /\ UNCHANGED << pc, session_count, has_tools, start_time, is_timer_running,
                    conversation_log, termination_event, now, lrq, instruction,
                    c2a_live, term_live, ticker, ws, sent, recv, log_calls,
                    disc_at, calls, submit_result, events, to_client >>

\* The event loop gets to run its other tasks: no task is in a loop that
\* never suspends (main.py:95-96 on an exhausted stream)
EventLoopRuns == a2c.st # "relooping"

\* main.py:294-297: termination_event.set() wakes every waiter
TerminationSeen ==
    /\ termination_event
    /\ term_live # {}
    /\ term_live' = {}
    /\ UNCHANGED << pc, session_count, has_tools, start_time, is_timer_running,
                    conversation_log, termination_event, now, lrq, instruction,
                    a2c, c2a_live, ticker, ws, sent, recv, log_calls, disc_at,
                    calls, submit_result, events, to_client >>

\* The client goes away
ClientDisconnect ==
    /\ ws = "open"
    /\ pc # "done"
    /\ ws' = "disconnected"
    /\ UNCHANGED << pc, session_count, has_tools, start_time, is_timer_running,
                    conversation_log, termination_event, now, lrq, instruction,
                    a2c, c2a_live, term_live, ticker, sent, recv, log_calls,
                    disc_at, calls, submit_result, events, to_client >>

\* main.py:144, 177-178: receive_text raises in every outbound pump that is
\* waiting on the connection; each returns through its except clause
C2AReceiveFails ==
    /\ ws # "open"
    /\ c2a_live # {}
    /\ c2a_live' = {}
    /\ disc_at' = IF pc = "wait" /\ a2c.st = "running" /\ lrq.id \in c2a_live
                  THEN session_count ELSE disc_at
    /\ UNCHANGED << pc, session_count, has_tools, start_time, is_timer_running,
                    conversation_log, termination_event, now, lrq, instruction,
                    a2c, term_live, ticker, ws, sent, recv, log_calls,
                    calls, submit_result, events, to_client >>

\* Client frames (main.py:145-147): mime_type and data
Frames ==
    { [mime_type |-> "text/plain", data |-> "Hi"],
      [mime_type |-> "audio/pcm", data |-> "QUJD"],
      [mime_type |-> "image/png", data |-> "QUJD"],
      [mime_type |-> "video/mp4", data |-> "QUJD"] }

\* base64.b64decode on the sample data
b64decode(d) == IF d = "QUJD" THEN "ABC" ELSE d

\* mime_type.startswith("image/") on the sample types
StartsWithImage(m) == m \in {"image/png"}

\* main.py:155  f"[ELAPSED TIME: {elapsed_time}]\n{data}"
TextWithTimer(elapsed, data) == << "[ELAPSED TIME: ", elapsed, "]\n", data >>

\* main.py:153-176: what the outbound pump of queue q puts on it for frame f
\* (number n of the connection); << >> when it raises instead
Forwarded(q, n, f, elapsed) ==
    IF f.mime_type = "text/plain"
    THEN << [q |-> q, n |-> n, via |-> "send_content", role |-> "user",
             body |-> TextWithTimer(elapsed, f.data)] >>
    ELSE IF f.mime_type = "audio/pcm" \/ StartsWithImage(f.mime_type)
    THEN << [q |-> q, n |-> n, via |-> "send_realtime", role |-> "",
             body |-> << b64decode(f.data), f.mime_type >>] >>
    ELSE << >>

\* main.py:142-178: one frame arrives and the outbound pump k that gets it
\* handles it
ClientFrame(k, f) ==
    /\ ws = "open"
    /\ pc # "done"
    /\ k \in c2a_live
    /\ Len(recv) < MaxFrames
    /\ recv' = Append(recv, [frame |-> f, by |-> k, at |-> now,
                             start |-> start_time, running |-> is_timer_running,
                             live |-> (pc = "wait" /\ k = lrq.id
                                       /\ a2c.st = "running"),
                             count |-> session_count])
    /\ start_time' = TimerAfterElapsed(start_time, is_timer_running)[1]
    /\ is_timer_running' = TimerAfterElapsed(start_time, is_timer_running)[2]
    /\ LET out == Forwarded(k, Len(recv) + 1, f,
                            ElapsedTime(start_time, is_timer_running, now))
       IN  /\ sent' = sent \o out
           /\ c2a_live' = IF out = << >> THEN c2a_live \ {k} ELSE c2a_live
    /\ UNCHANGED << pc, session_count, has_tools, conversation_log,
                    termination_event, now, lrq, instruction, a2c, term_live,
                    ticker, ws, log_calls, disc_at,
                    calls, submit_result, events, to_client >>

(***************************************************************************)
(* Time and the minute ticker (main.py:258-289)                            *)
(***************************************************************************)

\* int(elapsed_time.split("m")[0]); -1 stands for the ValueError
ParseMinute(elapsed) == IF Len(elapsed) = 2 THEN elapsed[1] ELSE -1

\* Faulty variant: minute 0 counts as a new minute
CrossesMinuteFromZero(current_minute, last_minute) ==
    current_minute > last_minute

\* main.py:278
CrossesMinute(current_minute, last_minute) ==
    current_minute > last_minute /\ current_minute > 0

\* main.py:280
TimerMessage(elapsed) == << "[SYSTEM TIMER UPDATE: ", elapsed, " elapsed]" >>

\* PollSeconds pass; a ticker whose sleep is over runs first
Tick(horizon) ==
    /\ now < horizon * PollSeconds
    /\ pc # "done"
    /\ ~(ticker.st = "sleeping" /\ ticker.wake <= now)
    /\ now' = now + PollSeconds
    /\ UNCHANGED << pc, session_count, has_tools, start_time, is_timer_running,
                    conversation_log, termination_event, lrq, instruction, a2c,
                    c2a_live, term_live, ticker, ws, sent, recv, log_calls,
                    disc_at,
                    calls, submit_result, events, to_client >>

\* Faulty variant: the ticker does not look at is_timer_running after its
\* sleep and goes on polling
TickerPollIgnoresStop ==
    /\ ticker.st = "sleeping"
    /\ ticker.wake <= now
    /\ LET elapsed == ElapsedTime(start_time, is_timer_running, now)
           minute == ParseMinute(elapsed)
       IN  IF minute # -1 /\ CrossesMinute(minute, ticker.last_minute)
           THEN /\ ticker' = [ticker EXCEPT !.last_minute = minute,
                                            !.wake = now + PollSeconds]
                /\ sent' = Append(sent,
                              [q |-> lrq.id, n |-> 0, via |-> "send_content",
                               role |-> "user", body |-> TimerMessage(elapsed)])
           ELSE /\ ticker' = [ticker EXCEPT !.wake = now + PollSeconds]
                /\ UNCHANGED sent
    /\ UNCHANGED << pc, session_count, has_tools, start_time, is_timer_running,
                    conversation_log, termination_event, now, lrq, instruction,
                    a2c, c2a_live, term_live, ws, recv, log_calls, disc_at,
                    calls, submit_result, events, to_client >>

\* main.py:264-289: the sleep of the ticker is over, one pass of its loop
TickerPoll ==
    /\ ticker.st = "sleeping"
    /\ ticker.wake <= now
    /\ IF ~is_timer_running
       THEN /\ ticker' = NoTicker                      \* break
            /\ UNCHANGED sent
       ELSE LET elapsed == ElapsedTime(start_time, is_timer_running, now)
                minute == ParseMinute(elapsed)
            IN  IF minute # -1 /\ CrossesMinute(minute, ticker.last_minute)
                THEN /\ ticker' = [ticker EXCEPT !.last_minute = minute,
                                                 !.wake = now + PollSeconds]
                     /\ sent' = Append(sent,
                                   [q |-> lrq.id, n |-> 0, via |-> "send_content",
                                    role |-> "user", body |-> TimerMessage(elapsed)])
                ELSE /\ ticker' = [ticker EXCEPT !.wake = now + PollSeconds]
                     /\ UNCHANGED sent
    /\ UNCHANGED << pc, session_count, has_tools, start_time, is_timer_running,
                    conversation_log, termination_event, now, lrq, instruction,
                    a2c, c2a_live, term_live, ws, recv, log_calls, disc_at,
                    calls, submit_result, events, to_client >>

(***************************************************************************)
(* The timer's methods called directly on an InterviewTools object         *)
(***************************************************************************)

\* tools.py:7-15: a new InterviewTools, no orchestrator
InitTimer ==
    /\ pc = "tools"
    /\ session_count = 0
    /\ has_tools = TRUE
    /\ start_time = NoTime
    /\ is_timer_running = FALSE
    /\ conversation_log = << >>
    /\ termination_event = FALSE
    /\ now = 0
    /\ lrq = [id |-> 0, closes |-> 0]
    /\ instruction = << >>
    /\ a2c = NoTask
    /\ c2a_live = {}
    /\ term_live = {}
    /\ ticker = NoTicker
    /\ ws = "open"
    /\ sent = << >>
    /\ recv = << >>
    /\ log_calls = << >>
    /\ disc_at = 0
    /\ calls = << >>
    /\ submit_result = NoSubmit
    /\ events = << >>
    /\ to_client = << >>

DirectCallPossible == pc = "tools" /\ Len(calls) < MaxCalls

\* tools.py:17-20
start_timer ==
    /\ DirectCallPossible
    /\ start_time' = StartTimer(now)[1]
    /\ is_timer_running' = StartTimer(now)[2]
    /\ calls' = Append(calls, [op |-> "start_timer", ret |-> << >>])
    /\ UNCHANGED << pc, session_count, has_tools, conversation_log,
                    termination_event, now, lrq, instruction, a2c, c2a_live,
                    term_live, ticker, ws, sent, recv, log_calls, disc_at,
                    submit_result, events, to_client >>

\* tools.py:22-24
stop_timer ==
    /\ DirectCallPossible
    /\ is_timer_running' = StopTimer
    /\ calls' = Append(calls, [op |-> "stop_timer", ret |-> << >>])
    /\ UNCHANGED << pc, session_count, has_tools, start_time, conversation_log,
                    termination_event, now, lrq, instruction, a2c, c2a_live,
                    term_live, ticker, ws, sent, recv, log_calls, disc_at,
                    submit_result, events, to_client >>

\* tools.py:26-40
get_elapsed_time ==
    /\ DirectCallPossible
    /\ start_time' = TimerAfterElapsed(start_time, is_timer_running)[1]
    /\ is_timer_running' = TimerAfterElapsed(start_time, is_timer_running)[2]
    /\ calls' = Append(calls,
                       [op |-> "get_elapsed_time",
                        ret |-> ElapsedTime(start_time, is_timer_running, now)])
    /\ UNCHANGED << pc, session_count, has_tools, conversation_log,
                    termination_event, now, lrq, instruction, a2c, c2a_live,
                    term_live, ticker, ws, sent, recv, log_calls, disc_at,
                    submit_result, events, to_client >>

(***************************************************************************)
(* Specifications                                                          *)
(***************************************************************************)

\* The connection within one polling period (no time passes), with at most
\* MaxFailures failing sessions and a client that sends no frame
Next ==
    \/ OpenOk
    \/ \E e \in ErrorTexts : OpenFails(MaxFailures, e)
    \/ SleepDone
    \/ WaitReturns
    \/ \E e \in ErrorTexts : A2CFails(MaxFailures, e)
    \/ TerminationSeen
    \/ ClientDisconnect
    \/ C2AReceiveFails
    \/ \E c \in NextLogCall : update_interview_log(c[1], c[2])
    \/ \E stored \in BOOLEAN : submit_interview_session_async(stored)
    \/ end_interview

Spec == Init /\ [][Next]_vars

\* The connection with any number of failing sessions, up to the restart
\* cap, and an agent that logs nothing
NextCap ==
    \/ OpenOk
    \/ \E e \in ErrorTexts : OpenFails(max_sessions, e)
    \/ SleepDone
    \/ LoopExit
    \/ WaitReturns
    \/ \E e \in ErrorTexts : A2CFails(max_sessions, e)
    \/ TerminationSeen
    \/ ClientDisconnect
    \/ C2AReceiveFails
    \/ end_interview

SpecCap == Init /\ [][NextCap]_vars

\* The connection over MaxTicks polling periods, with at most
\* MaxTimedFailures failing sessions, an agent that logs nothing, a store
\* that accepts and a client that sends no frame
NextTimed ==
    \/ OpenOk
    \/ \E e \in TimedErrorTexts : OpenFails(MaxTimedFailures, e)
    \/ SleepDone
    \/ WaitReturns
    \/ \E e \in TimedErrorTexts : A2CFails(MaxTimedFailures, e)
    \/ TerminationSeen
    \/ ClientDisconnect
    \/ C2AReceiveFails
    \/ submit_interview_session_async(TRUE)
    \/ end_interview
    \/ Tick(MaxTicks)
    \/ TickerPoll

SpecTimed == Init /\ [][NextTimed]_vars

\* One upstream session over MaxFrameTicks polling periods, with client frames
\* and without failures
NextFrames ==
    \/ OpenOk
    \/ WaitReturns
    \/ TerminationSeen
    \/ ClientDisconnect
    \/ C2AReceiveFails
    \/ \E k \in c2a_live, f \in Frames : ClientFrame(k, f)
    \/ end_interview
    \/ Tick(MaxFrameTicks)
    \/ TickerPoll

SpecFrames == Init /\ [][NextFrames]_vars

\* Any sequence of at most MaxCalls direct calls of the timer's methods
\* while MaxCallTicks polling periods pass
NextTimer ==
    \/ start_timer
    \/ stop_timer
    \/ get_elapsed_time
    \/ Tick(MaxCallTicks)

SpecTimer == InitTimer /\ [][NextTimer]_vars

\* The connection with client frames and at most MaxTimedFailures failing
\* sessions, without a clock
NextProtocol ==
    \/ OpenOk
    \/ SleepDone
    \/ WaitReturns
    \/ \E e \in TimedErrorTexts : A2CFails(MaxTimedFailures, e)
    \/ TerminationSeen
    \/ ClientDisconnect
    \/ C2AReceiveFails
    \/ \E k \in c2a_live, f \in Frames : ClientFrame(k, f)
    \/ end_interview

SpecProtocol == Init /\ [][NextProtocol]_vars

\* The connection with upstream events relayed to the client and at most
\* MaxTimedFailures failing sessions, without a clock
NextInbound ==
    \/ OpenOk
    \/ SleepDone
    \/ WaitReturns
    \/ \E e \in Events : A2CEvent(e)
    \/ \E e \in TimedErrorTexts : A2CFails(MaxTimedFailures, e)
    \/ TerminationSeen
    \/ ClientDisconnect
    \/ C2AReceiveFails
    \/ end_interview

SpecInbound == Init /\ [][NextInbound]_vars

\* One connection whose upstream event stream can end without an error, with
\* the event loop running whatever is ready
NextExhaust ==
    \/ ClientDisconnect
    \/ EventLoopRuns /\ OpenOk
    \/ EventLoopRuns /\ WaitReturns
    \/ EventLoopRuns /\ A2CStreamEnds
    \/ EventLoopRuns /\ (\E e \in Events : A2CEvent(e))
    \/ EventLoopRuns /\ TerminationSeen
    \/ EventLoopRuns /\ C2AReceiveFails
    \/ EventLoopRuns /\ (\E c \in NextLogCall : update_interview_log(c[1], c[2]))
    \/ EventLoopRuns /\ end_interview

SpecExhaust ==
    /\ Init
    /\ [][NextExhaust]_vars
    /\ WF_vars(EventLoopRuns /\ WaitReturns)
    /\ WF_vars(EventLoopRuns /\ TerminationSeen)
    /\ WF_vars(EventLoopRuns /\ C2AReceiveFails)

(***************************************************************************)
(* Properties                                                              *)
(***************************************************************************)

\* live_request_queue.close() was called on the upstream session the
\* orchestrator holds, or it holds none
UpstreamClosed == lrq.id = 0 \/ lrq.closes >= 1

\* C1: when asyncio.wait returns with the inbound pump failed by an error
\* whose text holds "1011", "1008", "policy violation" or "internal error",
\* the termination signal unset and the restart cap not reached, the
\* orchestrator closes the upstream session once and goes on to restart
\* (the delay before the next open); the client connection stays open.
C1_RecoverableErrorRestarts ==
    [][ ( /\ pc = "wait"
          /\ a2c.st = "failed"
          /\ a2c.err \in { "received 1011", "received 1008", "Policy Violation",
                           "Internal Error" }
          /\ ~termination_event
          /\ session_count < max_sessions
          /\ pc' # "wait" )
        => ( /\ pc' = "sleep"
             /\ ws' = ws
             /\ lrq'.closes = lrq.closes + 1
             /\ conversation_log' = conversation_log ) ]_vars

\* The entries a resume context was rendered from: role (upper case) and
\* content of every line between the header and the footer
C2_EntriesOf(ctx) ==
    IF ctx = << >> THEN << >>
    ELSE [i \in 1..(Len(ctx) - 4) |-> << ctx[i + 2][2], ctx[i + 2][4] >>]

C2_Transcript(log) ==
    [i \in 1..Len(log) |->
        << IF log[i].role = "agent" THEN "AGENT" ELSE "USER", log[i].content >>]

\* C2: every resumption (an open with the tools already there) gives the
\* new agent a resume context that holds exactly the entries of the
\* transcript, in order, and leaves the timer and the transcript unchanged.
C2_ResumeCarriesTranscript ==
    [][ (pc = "open" /\ pc' = "wait" /\ has_tools)
        => ( /\ C2_EntriesOf(instruction') = C2_Transcript(conversation_log)
             /\ conversation_log' = conversation_log
             /\ start_time' = start_time
             /\ is_timer_running' = is_timer_running ) ]_vars

\* A session resumed with a transcript of two entries
C2_Witness ==
    /\ pc = "wait"
    /\ lrq.id >= 2
    /\ Len(conversation_log) = 2
    /\ Len(instruction) = 6

\* C3: session_count never exceeds max_sessions, no more upstream sessions
\* are opened than attempts made, and once max_sessions attempts have all
\* ended in a recoverable failure the upstream session is closed and the
\* only step the orchestrator takes is to end the session, without another
\* attempt.
C3_RestartCap ==
    /\ [] ( /\ session_count <= max_sessions
            /\ lrq.id <= session_count
            /\ (pc = "open" /\ session_count = max_sessions => UpstreamClosed) )
    /\ [][ (pc = "open" /\ session_count = max_sessions /\ pc' # pc)
           => ( /\ pc' = "done"
                /\ ws' = "closed"
                /\ ~is_timer_running'
                /\ session_count' = session_count
                /\ lrq' = lrq ) ]_vars

\* The session ended by the cap: one upstream session opened, closed when
\* its pump failed and again by each of the nine failed opens
C3_Witness ==
    /\ pc = "done"
    /\ session_count = max_sessions
    /\ lrq.id = 1
    /\ lrq.closes = max_sessions

\* C4: a session that ended after end_interview was called has the timer
\* stopped, the client connection closed and the upstream session closed.
C4_EndInterviewClosesAll ==
    (pc = "done" /\ termination_event)
    => (~is_timer_running /\ ws = "closed" /\ UpstreamClosed)

\* C5: a session that ended after the client disconnected while it was
\* RUNNING, with the termination signal unset, ended in the cycle of the
\* disconnect (no restart), with the upstream session closed and the timer
\* stopped.
C5_DisconnectEndsWithoutRestart ==
    (pc = "done" /\ disc_at > 0 /\ ~termination_event)
    => (session_count = disc_at /\ UpstreamClosed /\ ~is_timer_running)

\* C8: the transcript is the sequence of update_interview_log calls in call
\* order, and no step changes or removes an entry it already holds.
C8_TranscriptAppendOnly ==
    /\ [] ( [i \in 1..Len(conversation_log) |->
               << conversation_log[i].role, conversation_log[i].content >>]
            = log_calls )
    /\ [][ /\ Len(conversation_log') >= Len(conversation_log)
           /\ \A i \in 1..Len(conversation_log) :
                  conversation_log'[i] = conversation_log[i] ]_vars

\* Two entries logged, one of them after the timer was stopped, and the
\* session ended after a restart
C8_Witness ==
    /\ pc = "done"
    /\ session_count >= 2
    /\ Len(conversation_log) = 2
    /\ conversation_log[2].timestamp = <<"None">>

\* What the pump put on a queue for frame number i of the connection
C6_ItemsOf(i) == SelectSeq(sent, LAMBDA x : x.n = i)

\* elapsed() at the receipt r of a frame, worked out from the clock
C6_ElapsedAt(r) ==
    IF r.start = NoTime THEN <<0, 0>>
    ELSE IF ~r.running THEN <<"Timer stopped">>
    ELSE << (r.at - r.start) \div 60, (r.at - r.start) % 60 >>

\* C6: every text/plain frame received is forwarded as exactly one user
\* turn "[ELAPSED TIME: " + elapsed() + "]\n" + data with elapsed() taken at
\* receipt ("Hi" at 65 s gives "[ELAPSED TIME: 1m 5s]\nHi"); every audio/pcm
\* or image/* frame is forwarded as exactly one raw media chunk, the decoded
\* data and the mime type, without a time prefix.
C6_FramesForwarded ==
    \A i \in 1..Len(recv) :
        LET r == recv[i]
            items == C6_ItemsOf(i)
        IN  /\ r.frame.mime_type = "text/plain"
               => items = << [q |-> r.by, n |-> i, via |-> "send_content",
                              role |-> "user",
                              body |-> << "[ELAPSED TIME: ", C6_ElapsedAt(r),
                                          "]\n", r.frame.data >>] >>
            /\ ( /\ r.frame = [mime_type |-> "text/plain", data |-> "Hi"]
                 /\ r.running
                 /\ r.at - r.start = 65 )
               => items[1].body = << "[ELAPSED TIME: ", <<1, 5>>, "]\n", "Hi" >>
            /\ r.frame.mime_type \in {"audio/pcm", "image/png"}
               => items = << [q |-> r.by, n |-> i, via |-> "send_realtime",
                              role |-> "",
                              body |-> << "ABC", r.frame.mime_type >>] >>

\* "Hi" received 65 s after the timer started
C6_Witness ==
    \E i \in 1..Len(recv) :
        /\ recv[i].frame = [mime_type |-> "text/plain", data |-> "Hi"]
        /\ recv[i].running
        /\ recv[i].at - recv[i].start = 65
        /\ Len(C6_ItemsOf(i)) = 1

C7_IsCall(i, op) == calls[i].op = op

\* At call j the timer was started and not stopped since
C7_Running(j) ==
    \E k \in 1..(j - 1) :
        /\ C7_IsCall(k, "start_timer")
        /\ \A m \in (k + 1)..(j - 1) : ~C7_IsCall(m, "stop_timer")

\* At call j the timer was started, then stopped and not started since
C7_Stopped(j) ==
    /\ \E k \in 1..(j - 1) : C7_IsCall(k, "start_timer")
    /\ \E k \in 1..(j - 1) :
        /\ C7_IsCall(k, "stop_timer")
        /\ \A m \in (k + 1)..(j - 1) : ~C7_IsCall(m, "start_timer")

C7_AtMost(a, b) == a[1] < b[1] \/ (a[1] = b[1] /\ a[2] <= b[2])

C9_Minutes ==
    LET N == SelectSeq(sent, LAMBDA x : x.n = 0)
    IN  [i \in 1..Len(N) |-> N[i].body[2][1]]

\* C9: over the whole client session the minutes announced by the minute
\* ticker are strictly increasing: none twice, none after a larger one.
C9_NoticesStrictlyIncreasing ==
    \A i, j \in 1..Len(C9_Minutes) : i < j => C9_Minutes[i] < C9_Minutes[j]

\* The minutes announced by the ticker of the current cycle
C10_CycleMinutes ==
    LET N == SelectSeq(sent, LAMBDA x : x.n = 0 /\ x.q = lrq.id)
    IN  [i \in 1..Len(N) |-> N[i].body[2][1]]

\* After its latest poll (PollSeconds before the next) the ticker has
\* announced the minutes 1, 2, ..., floor(T / 60), T the time on the timer at
\* that poll, and the next poll is due PollSeconds after it at the latest
C10_OnePerMinute ==
    LET polled == ticker.wake - PollSeconds
        K == (polled - start_time) \div 60
    IN  /\ C10_CycleMinutes = [i \in 1..K |-> i]
        /\ K <= (now - start_time) \div 60
        /\ now - polled <= PollSeconds

\* C10 as amended: in the upstream cycle that started the timer, while the
\* timer has not been stopped, the ticker has announced exactly the minutes
\* 1 .. floor(T / 60) as of its latest 5-second poll, each once, none for 0.
C10_MinuteNoticesFirstCycle ==
    (lrq.id = 1 /\ ticker.st = "sleeping" /\ is_timer_running) => C10_OnePerMinute

\* C10 as stated: the same within any one upstream cycle, once the ticker
\* of the cycle has polled
C10_MinuteNoticesEveryCycle ==
    ( /\ ticker.st = "sleeping"
      /\ is_timer_running
      /\ ticker.wake - PollSeconds > ticker.since ) => C10_OnePerMinute

\* Two minutes announced in the first cycle
C10_Witness ==
    /\ lrq.id = 1
    /\ ticker.st = "sleeping"
    /\ is_timer_running
    /\ C10_CycleMinutes = <<1, 2>>
    /\ now - start_time >= 120

\* C11: every upstream session instance opened has close() invoked on it
\* exactly once by the time the orchestrator opens the next instance or ends
\* the session: never zero times, never twice.
C11_ClosedExactlyOnce ==
    /\ [] (lrq.closes <= 1)
    /\ [] ((pc = "done" /\ lrq.id > 0) => lrq.closes = 1)
    /\ [][ (lrq'.id # lrq.id /\ lrq.id > 0) => lrq.closes = 1 ]_vars

\* C12: when the wait on the raced duties has returned, the other duties of
\* that cycle are cancelled before the next cycle starts or the session
\* ends: while a cycle is running no pump, termination waiter or ticker of
\* an earlier cycle is alive, and none is alive once the session has ended.
C12_NoStaleDuties ==
    /\ pc = "wait" => (c2a_live \subseteq {lrq.id} /\ term_live \subseteq {lrq.id})
    /\ pc \in {"sleep", "open", "done"}
       => (c2a_live = {} /\ term_live = {} /\ a2c.st # "running"
           /\ ticker.st = "none")

C13_Unsupported(f) == f.mime_type \notin {"text/plain", "audio/pcm", "image/png"}

\* C13: after the outbound pump of the running cycle got a frame of an
\* unsupported mime type, nothing is forwarded upstream for that frame, no
\* further upstream session is opened, the restart counter stays as it
\* was, and that pump handles no later frame.
C13_UnsupportedFrameEndsSession ==
    \A i \in 1..Len(recv) :
        (C13_Unsupported(recv[i].frame) /\ recv[i].live)
        => /\ C6_ItemsOf(i) = << >>
           /\ session_count = recv[i].count
           /\ lrq.id = recv[i].by
           /\ recv[i].by \notin c2a_live

\* C14: every submit_interview_session_async() call stops the timer, hands
\* the store {session_id, conversation: the whole transcript, status:
\* "completed"} and returns a status string: the stored document's id when
\* the store accepts, an error description when the store fails.  Whatever
\* the store does, the call leaves the transcript, the termination signal,
\* the orchestrator, the restart counter and the upstream session alone.
C14_SubmitAlwaysReturns ==
    [][ submit_result' # submit_result
        => /\ ~is_timer_running'
           /\ submit_result'.doc = [session_id |-> "1",
                                    conversation |-> conversation_log,
                                    status |-> "completed"]
           /\ submit_result'.stored
              => submit_result'.ret = << "Interview session saved with ID: ", "doc1" >>
           /\ ~submit_result'.stored
              => submit_result'.ret[1] = "Error saving session: "
           /\ conversation_log' = conversation_log
           /\ termination_event' = termination_event
           /\ pc' = pc
           /\ session_count' = session_count
           /\ lrq' = lrq
           /\ a2c' = a2c
           /\ ws' = ws ]_vars

\* The store failed on a transcript of two entries while the timer ran on
C14_Witness ==
    /\ ~submit_result.stored
    /\ submit_result.ret = << "Error saving session: ", "store down" >>
    /\ Len(submit_result.doc.conversation) = 2
    /\ conversation_log = submit_result.doc.conversation
    /\ ~is_timer_running
    /\ ~termination_event
    /\ pc = "wait"

\* C15: once the orchestrator has ended the client session, by whatever
\* path (termination signal, client disconnect, non-recoverable error,
\* restart cap), the timer is not running and the client connection has
\* been closed, and the timer does not run again.
C15_EndedMeansStopped ==
    /\ [] (pc = "done" => (~is_timer_running /\ ws = "closed"))
    /\ [][ pc = "done" => (~is_timer_running' /\ start_time' = start_time) ]_vars

\* Ended by a non-recoverable error in a resumed cycle, the timer started
C15_Witness ==
    /\ pc = "done"
    /\ start_time # NoTime
    /\ session_count >= 2
    /\ lrq.id >= 2
    /\ lrq.closes = 0
    /\ ~termination_event
    /\ ~is_timer_running

\* The frames sent to the client for event number i
C16_FramesOf(i) == SelectSeq(to_client, LAMBDA x : x.n = i)

\* The one frame the relay owes the client for event e, << >> for none
C16_Owed(e) ==
    IF e.turn_complete \/ e.interrupted
    THEN << [form |-> "control", turn_complete |-> e.turn_complete,
             interrupted |-> e.interrupted, mime_type |-> "", data |-> ""] >>
    ELSE IF e.part = "audio" /\ e.data = "ABC"
    THEN << [form |-> "media", turn_complete |-> FALSE, interrupted |-> FALSE,
             mime_type |-> "audio/pcm", data |-> "QUJD"] >>
    ELSE IF e.part = "text" /\ e.partial
    THEN << [form |-> "media", turn_complete |-> FALSE, interrupted |-> FALSE,
             mime_type |-> "text/plain", data |-> e.data] >>
    ELSE << >>

\* C16: the inbound pump sends the client at most one frame per upstream
\* event, in the order of the events: a control frame for an event with
\* turn_complete or interrupted, a base64 audio/pcm frame for an audio event,
\* a text/plain frame for a partial text; nothing for a complete text or an
\* event without content; and nothing else is ever sent to the client.
C16_InboundRelay ==
    /\ \A i \in 1..Len(events) :
         /\ Len(C16_FramesOf(i)) <= 1
         /\ [j \in 1..Len(C16_FramesOf(i)) |-> C16_FramesOf(i)[j].frame]
                = C16_Owed(events[i])
    /\ \A j \in 1..Len(to_client) :
         /\ to_client[j].n \in 1..Len(events)
         /\ \A k \in 1..(j - 1) : to_client[k].n < to_client[j].n
         /\ \/ to_client[j].frame.form = "control"
            \/ to_client[j].frame.mime_type \in {"audio/pcm", "text/plain"}

\* A complete text was dropped, then a partial text relayed
C16_Witness ==
    /\ Len(events) = 2
    /\ events[1].part = "text" /\ ~events[1].partial /\ ~events[1].turn_complete
    /\ events[2].part = "text" /\ events[2].partial
    /\ Len(to_client) = 1
    /\ to_client[1].n = 2
    /\ to_client[1].frame.mime_type = "text/plain"

\* C17: within one client connection the timer is started at most once, at
\* the first successful upstream open: once the start point is set no step
\* changes it, and a step that sets it is the first successful open.
C17_TimerStartedOnce ==
    [][ /\ start_time # NoTime => start_time' = start_time
        /\ start_time' # start_time
           => (/\ pc = "open" /\ pc' = "wait"
               /\ ~has_tools /\ has_tools'
               /\ lrq.id = 0 /\ lrq'.id = 1
               /\ start_time' = now
               /\ is_timer_running') ]_vars

\* A resumed cycle running, the timer still counting from the first open
C17_Witness ==
    /\ pc = "wait"
    /\ session_count = 2
    /\ lrq.id = 2
    /\ start_time # NoTime
    /\ now > start_time
    /\ is_timer_running

\* C18: whenever the upstream event stream has ended without an error, the
\* orchestrator eventually ends the session through the no-error path:
\* upstream closed once, timer stopped, connection closed.
C18_ExhaustionEndsSession ==
    (a2c.st = "relooping")
        ~> (pc = "done" /\ lrq.closes = 1 /\ ~is_timer_running /\ ws = "closed")

\* The sample error texts that hold none of "1008", "1011", "policy
\* violation", "internal error", "ConnectionClosed"
C19_OtherError(e) == e \in {"connectionclosed", "Mime type not supported"}

\* C19: when the orchestrator handles a pump that completed with an error
\* other than a policy, internal-error or abnormal-closure fault, the
\* session ends there: no further upstream session is opened and the
\* restart counter does not increase again, then or later.
C19_OtherErrorEndsSession ==
    /\ [][ (/\ pc = "wait" /\ pc' # "wait"
            /\ a2c.st = "failed"
            /\ C19_OtherError(a2c.err))
           => (/\ pc' = "done"
               /\ session_count' = session_count
               /\ lrq'.id = lrq.id) ]_vars
    /\ [][ pc = "done"
           => (/\ pc' = "done"
               /\ session_count' = session_count
               /\ lrq'.id = lrq.id) ]_vars

\* The first cycle ended on such an error: the pending duties were left
\* and upstream was not closed
C19_Witness ==
    /\ pc = "done"
    /\ session_count = 1
    /\ lrq = [id |-> 1, closes |-> 0]
    /\ c2a_live = {1}
    /\ ~termination_event
    /\ ws = "closed"

\* C20: at most one upstream session instance is open at any moment: when
\* the orchestrator opens an instance, the instance it held before has
\* been closed, and it holds no other.
C20_OneOpenInstance ==
    [][ lrq'.id # lrq.id
        => (/\ lrq'.id = lrq.id + 1
            /\ lrq'.closes = 0
            /\ lrq.id > 0 => lrq.closes >= 1) ]_vars

\* The third instance, open, after two restarts
C20_Witness ==
    /\ pc = "wait"
    /\ lrq = [id |-> 3, closes |-> 0]
    /\ a2c.st = "running"

\* C21: only the duties of the current cycle touch the upstream session
\* and the client connection: a client frame received while a cycle is
\* running is read by that cycle's outbound pump, frames are forwarded in
\* the order received, and whatever is put on an upstream instance is put on
\* the current one while it is running and not closed.
C21_OnlyCurrentCycleForwards ==
    /\ [] (\A j, k \in 1..Len(sent) :
              (j < k /\ sent[j].n > 0 /\ sent[k].n > 0) => sent[j].n < sent[k].n)
    /\ [][ Len(recv') > Len(recv) /\ pc = "wait"
           => recv'[Len(recv')].by = lrq.id ]_vars
    /\ [][ Len(sent') > Len(sent)
           => (/\ sent'[Len(sent')].q = lrq.id
               /\ lrq.closes = 0
               /\ pc = "wait") ]_vars

\* The minutes announced so far by the minute tickers
C22_Minutes ==
    LET N == SelectSeq(sent, LAMBDA x : x.n = 0)
    IN  [i \in 1..Len(N) |-> N[i].body[2][1]]

\* C22: once the timer has been stopped no minute notice is put upstream
\* any more; the ticker of the cycle, still asleep when the timer stops,
\* ends at its next poll, which is due within one polling period, and no
\* ticker runs after that.
C22_StoppedTimerSilencesTicker ==
    /\ [] ((start_time # NoTime /\ ~is_timer_running /\ ticker.st = "sleeping")
              => (now <= ticker.wake /\ ticker.wake <= ticker.since
                      + PollSeconds * (1 + (now - ticker.since) \div PollSeconds)))
    /\ [][ (start_time # NoTime /\ ~is_timer_running)
           => (/\ Len(sent') > Len(sent) => sent'[Len(sent')].n # 0
               /\ ticker' # ticker => ticker'.st = "none"
               /\ ~is_timer_running') ]_vars

\* Stopped by submit during the second minute: the ticker has ended and
\* nothing was announced for minute 2
C22_Witness ==
    /\ pc = "wait"
    /\ session_count = 1
    /\ a2c.st = "running"
    /\ ~is_timer_running
    /\ ~termination_event
    /\ submit_result.stored
    /\ ticker.st = "none"
    /\ C22_Minutes = <<1>>
    /\ now - start_time >= 120

\* C23: once the termination signal is set it stays set, and from then on
\* the orchestrator opens no further upstream session and does not count
\* another cycle, whatever else completes in the same wait result.
C23_TerminationIsFinal ==
    [][ termination_event
        => (/\ termination_event'
            /\ lrq'.id = lrq.id
            /\ session_count' = session_count
            /\ pc' \in {pc, "done"}) ]_vars

====
